---- MODULE Spec2Model ----
(***************************************************************************)
(* Model of the two ingestion / release pipelines of bsky-hn-bot:          *)
(*   - the Hacker News instance  (src/unnamed/part_000)                    *)
(*   - the Reddit instance       (src/reddit.js)                           *)
(* One behaviour follows one process, of one instance (inst), from its     *)
(* start.  Every step is one await / callback boundary of the source.      *)
(***************************************************************************)
EXTENDS Integers, Sequences, FiniteSets, TLC

\* ---------------------------------------------------------------- bounds
\* Number of ticks (runs of main) one behaviour of the hn script starts: its
\* first tick is awaited to its end, so two ticks overlap from the third on.
MaxTicks == 3
\* Number of ticks one behaviour of the reddit script starts: its callbacks
\* outlive main, so the first two ticks already overlap.
MaxRedditTicks == 2
\* External identifiers the source can list: 1..MaxId.
MaxId == 2
\* Longest listing a tick receives (stands for slice(0, 15) / limit=7).
MaxList == 2
\* Largest number of child comments of a story (stands for slice(0, 25)).
MaxKids == 1
MaxPosts == 2

Ids == 1..MaxId
Ticks == 1..MaxTicks
NoRow == 0

VARIABLES
    inst,        \* "hn" or "reddit": which script this process runs
    proc,        \* "startup" (first main awaited), "scheduled" (job started), "exited"
    nticks,      \* number of ticks started so far
    pc,          \* pc[t]: position of main of tick t
    err,         \* err[t]: the error main of tick t rejected with ("none" if none)
    rest,        \* rest[t]: hn, candidates of the for loop not yet finished
    story,       \* story[t]: hn, the detail just fetched for the current candidate
    kids,        \* kids[t]: hn, child comments of the current story still to fetch
    comments,    \* comments[t]: hn, number of comment texts collected so far
    cand,        \* cand[t]: reddit, the listed posts whose callbacks are not finished,
                 \*          in listing order, each with its id, its stage and
                 \*          whether a post listed after it was inserted first
    rel,         \* rel[t]: position of the release step of tick t
    sel,         \* sel[t]: row id selected by the release step of tick t
    db,          \* the table: set of rows [id, ext, summary, retrieved]
    created,     \* history: external ids in the order their rows were created
    postCount,   \* history: postCount[e] = number of agent.post calls for e
    overlapped,  \* history: some tick started while another was in flight
    pubFailed,   \* history: the identifiers for which agent.login or agent.post threw
    skipped      \* history: hn, the candidates skipped so far, each with whether
                 \* its detail was absent or lacked both kids and url

vars == <<inst, proc, nticks, pc, err, rest, story, kids, comments, cand, rel, sel,
          db, created, postCount, overlapped, pubFailed, skipped>>

\* ---------------------------------------------------------------- store
SetMax(S) == CHOOSE x \in S : \A y \in S : y <= x
SetMin(S) == CHOOSE x \in S : \A y \in S : x <= y

\* id INTEGER PRIMARY KEY AUTOINCREMENT (hn) / implicit ROWID (reddit):
\* one more than the largest id in the table (rows are never deleted).
NextRowId(d) == IF d = {} THEN 1 ELSE SetMax({r.id : r \in d}) + 1

\* The lookup written so that it never finds a row.
NeverStored(d, e) == FALSE

\* SELECT 1 FROM news_data WHERE storyId = ?  /  SELECT id FROM processed_posts WHERE id = ?
HasRow(d, e) == \E r \in d : r.ext = e

\* The table declared without its UNIQUE / PRIMARY KEY constraint.
NoUniqueConstraint(d, e) == FALSE

\* storyId INTEGER UNIQUE (hn) / id TEXT PRIMARY KEY (reddit)
UniqueViolation(d, e) == HasRow(d, e)

\* The insert written with retrieved = 1 among its values.
InsertRetrieved(d, e, s) ==
    IF UniqueViolation(d, e) THEN d
    ELSE d \cup {[id |-> NextRowId(d), ext |-> e, summary |-> s, retrieved |-> TRUE]}

\* INSERT INTO ... VALUES (...): retrieved takes its DEFAULT 0. The content
\* (title, url, summary) is what run s of main computed for e.
InsertRow(d, e, s) ==
    IF UniqueViolation(d, e) THEN d
    ELSE d \cup {[id |-> NextRowId(d), ext |-> e, summary |-> s, retrieved |-> FALSE]}

\* The select written "stack-like", ORDER BY id DESC.
SelectNewest(d) ==
    LET un == {r.id : r \in {x \in d : ~x.retrieved}}
    IN  IF un = {} THEN NoRow ELSE SetMax(un)

\* ... WHERE retrieved = 0 ORDER BY id ASC LIMIT 1   (ORDER BY ROWID ASC in reddit)
SelectOldest(d) ==
    LET un == {r.id : r \in {x \in d : ~x.retrieved}}
    IN  IF un = {} THEN NoRow ELSE SetMin(un)

\* The update written without its WHERE clause.
MarkAllRetrieved(d, i) == {[r EXCEPT !.retrieved = TRUE] : r \in d}

\* UPDATE ... SET retrieved = 1 WHERE id = ?
MarkRetrieved(d, i) ==
    {IF r.id = i THEN [r EXCEPT !.retrieved = TRUE] ELSE r : r \in d}

ExtOf(d, i) == (CHOOSE r \in d : r.id = i).ext

\* The post attempts counted per identifier (history): the count stops at
\* MaxPosts.
Counted(n) == IF n < MaxPosts THEN n + 1 ELSE n

\* ---------------------------------------------------------------- listings
\* What the source returns: any sequence of at most MaxList identifiers.
Listings == UNION {[1..n -> Ids] : n \in 0..MaxList}

\* ---------------------------------------------------------------- ticks
RelBusy(t) == rel[t] \in {"timer", "select", "update", "login", "post"}
CandBusy(t) == cand[t] # <<>>
MainBusy(t) == pc[t] \notin {"idle", "done", "rejected"}
InFlight(t) == MainBusy(t) \/ CandBusy(t) \/ RelBusy(t)

\* What item/<id>.json can return: null, or an item with or without kids
\* (kids = -1: no kids field) and with or without url.
Stories == [present : BOOLEAN, kids : -1..MaxKids, url : BOOLEAN]
\* No detail fetched (outside the step between the fetch and its test).
NoStory == [present |-> FALSE, kids |-> -1, url |-> FALSE]

\* The detail is null, or has neither kids nor url.
LacksBoth(s) == ~s.present \/ (s.kids = -1 /\ ~s.url)

\* The test written for the detail alone.
SkippedIfAbsent(s) == ~s.present

\* if (!story || !story.kids || !story.url)
Skipped(s) == ~s.present \/ s.kids = -1 \/ ~s.url

TickBudget == IF inst = "hn" THEN MaxTicks ELSE MaxRedditTicks

\* main begins with its listing call.
StartPc(i) == IF i = "hn" THEN "fetchTopStories" ELSE "fetchRecentPosts"

Init ==
    /\ inst \in {"hn", "reddit"}
    /\ proc = "startup"
    /\ nticks = 1
    /\ pc = [t \in Ticks |-> IF t = 1 THEN StartPc(inst) ELSE "idle"]
    /\ err = [t \in Ticks |-> "none"]
    /\ rest = [t \in Ticks |-> <<>>]
    /\ story = [t \in Ticks |-> NoStory]
    /\ kids = [t \in Ticks |-> 0]
    /\ comments = [t \in Ticks |-> 0]
    /\ cand = [t \in Ticks |-> <<>>]
    /\ rel = [t \in Ticks |-> "none"]
    /\ sel = [t \in Ticks |-> NoRow]
    /\ db = {}
    /\ created = <<>>
    /\ postCount = [e \in Ids |-> 0]
    /\ overlapped = FALSE
    /\ pubFailed = {}
    /\ skipped = {}

\* ---------------------------------------------------------------- settling
\* The promise of main of tick t settles, with error e ("none": it resolves).
\*   tick 1, hn:     (async () => { await main(); ... job.start() })()
\*                   a rejection leaves the function before job.start()
\*   tick 1, reddit: await main().catch(...): job.start() always follows
\*   later ticks:    new CronJob(expr, main): nobody handles the rejected
\*                   promise; the runtime either ends the process or warns
MainSettles(t, e) ==
    /\ pc' = [pc EXCEPT ![t] = IF e = "none" THEN "done" ELSE "rejected"]
    /\ err' = [err EXCEPT ![t] = e]
    /\ IF t = 1
       THEN proc' = IF e = "none" \/ inst = "reddit" THEN "scheduled" ELSE "exited"
       ELSE IF e = "none" THEN proc' = proc ELSE proc' \in {proc, "exited"}

\* An async callback nobody awaits threw: unhandled rejection.
UnhandledRejection == proc' \in {proc, "exited"}

\* ---------------------------------------------------------------- hn: main
HnRuns(t) == inst = "hn" /\ proc # "exited" /\ t \in 1..nticks

\* for (const storyId of storyIds): go on with the candidates r, or leave the
\* loop and call testRetrieval -> getTopNewsItem (its db.get is queued).
HnLoop(t, r) ==
    /\ rest' = [rest EXCEPT ![t] = r]
    /\ kids' = [kids EXCEPT ![t] = 0]
    /\ comments' = [comments EXCEPT ![t] = 0]
    /\ IF r = <<>>
       THEN /\ pc' = [pc EXCEPT ![t] = "testRetrieval"]
            /\ rel' = [rel EXCEPT ![t] = "select"]
       ELSE /\ pc' = [pc EXCEPT ![t] = "isStoryProcessed"]
            /\ rel' = rel

\* The loop written with a try/catch around each candidate: the error is
\* noted and the loop goes on with the next candidate.
HnContinue(t, e) ==
    /\ err' = [err EXCEPT ![t] = e]
    /\ UNCHANGED <<proc, sel>>
    /\ IF rest[t] = <<>>
       THEN /\ pc' = [pc EXCEPT ![t] = "rejected"]
            /\ UNCHANGED <<rest, kids, comments, rel>>
       ELSE HnLoop(t, Tail(rest[t]))

\* main rejects inside the loop with error e.
HnAbort(t, e) ==
    /\ MainSettles(t, e)
    /\ rest' = [rest EXCEPT ![t] = <<>>]
    /\ kids' = [kids EXCEPT ![t] = 0]
    /\ comments' = [comments EXCEPT ![t] = 0]
    /\ UNCHANGED <<rel, sel>>

fetchTopStories(t) ==
    /\ HnRuns(t)
    /\ pc[t] = "fetchTopStories"
    /\ \/ HnAbort(t, "listing")
       \/ /\ \E l \in Listings : HnLoop(t, l)
          /\ UNCHANGED <<err, proc, sel>>
    /\ UNCHANGED <<inst, story, skipped, pubFailed, nticks, cand, db, created, postCount, overlapped>>

isStoryProcessed(t) ==
    /\ HnRuns(t)
    /\ pc[t] = "isStoryProcessed"
    /\ \/ HnAbort(t, "storage")
       \/ /\ HasRow(db, Head(rest[t]))
          /\ HnLoop(t, Tail(rest[t]))
          /\ UNCHANGED <<err, proc, sel>>
       \/ /\ ~HasRow(db, Head(rest[t]))
          /\ pc' = [pc EXCEPT ![t] = "fetchStoryDetails"]
          /\ UNCHANGED <<err, proc, rest, kids, comments, rel, sel>>
    /\ UNCHANGED <<inst, story, skipped, pubFailed, nticks, cand, db, created, postCount, overlapped>>

\* const story = await fetchStoryDetails(storyId) returns or throws.
fetchStoryDetails(t) ==
    /\ HnRuns(t)
    /\ pc[t] = "fetchStoryDetails"
    /\ \/ /\ HnAbort(t, "detail")
          /\ UNCHANGED story
       \/ /\ \E s \in Stories : story' = [story EXCEPT ![t] = s]
          /\ pc' = [pc EXCEPT ![t] = "checkStory"]
          /\ UNCHANGED <<err, proc, rest, kids, comments, rel, sel>>
    /\ UNCHANGED <<inst, skipped, pubFailed, nticks, cand, db, created, postCount, overlapped>>

\* The test written so that a skip is remembered: the skipped identifier is
\* stored as a Record already released.
checkStoryRemembering(t) ==
    /\ HnRuns(t)
    /\ pc[t] = "checkStory"
    /\ story' = [story EXCEPT ![t] = NoStory]
    /\ \/ /\ Skipped(story[t])
          /\ HnLoop(t, Tail(rest[t]))
          /\ skipped' = skipped \cup {[ext |-> Head(rest[t]), both |-> LacksBoth(story[t])]}
          /\ db' = MarkAllRetrieved(InsertRow(db, Head(rest[t]), t), NoRow)
          /\ created' = Append(created, Head(rest[t]))
       \/ /\ ~Skipped(story[t])
          /\ kids' = [kids EXCEPT ![t] = story[t].kids]
          /\ comments' = [comments EXCEPT ![t] = 0]
          /\ pc' = [pc EXCEPT ![t] =
                      IF story[t].kids = 0 THEN "summarizeComments" ELSE "fetchComment"]
          /\ UNCHANGED <<rest, rel, skipped, db, created>>
    /\ UNCHANGED <<inst, pubFailed, proc, err, sel, nticks, cand, postCount, overlapped>>

\* if (!story || !story.kids || !story.url) continue; otherwise the comment
\* loop starts with the first fetch.
checkStory(t) ==
    /\ HnRuns(t)
    /\ pc[t] = "checkStory"
    /\ story' = [story EXCEPT ![t] = NoStory]
    /\ \/ /\ Skipped(story[t])
          /\ HnLoop(t, Tail(rest[t]))
          /\ skipped' = skipped \cup {[ext |-> Head(rest[t]), both |-> LacksBoth(story[t])]}
       \/ /\ ~Skipped(story[t])
          /\ kids' = [kids EXCEPT ![t] = story[t].kids]
          /\ comments' = [comments EXCEPT ![t] = 0]
          /\ pc' = [pc EXCEPT ![t] =
                      IF story[t].kids = 0 THEN "summarizeComments" ELSE "fetchComment"]
          /\ UNCHANGED <<rest, rel, skipped>>
    /\ UNCHANGED <<inst, pubFailed, proc, err, sel, nticks, cand, db, created, postCount, overlapped>>

\* for (const commentId of story.kids.slice(0, 25)): one fetchStoryDetails.
fetchComment(t) ==
    /\ HnRuns(t)
    /\ pc[t] = "fetchComment"
    /\ \/ HnAbort(t, "comment")
       \/ \E hasText \in BOOLEAN :
            /\ kids' = [kids EXCEPT ![t] = @ - 1]
            /\ comments' = [comments EXCEPT ![t] = IF hasText THEN @ + 1 ELSE @]
            /\ pc' = [pc EXCEPT ![t] =
                        IF kids[t] = 1 THEN "summarizeComments" ELSE "fetchComment"]
            /\ UNCHANGED <<err, proc, rest, rel, sel>>
    /\ UNCHANGED <<inst, story, skipped, pubFailed, nticks, cand, db, created, postCount, overlapped>>

summarizeComments(t) ==
    /\ HnRuns(t)
    /\ pc[t] = "summarizeComments"
    /\ \/ HnAbort(t, "summarize")
       \/ /\ pc' = [pc EXCEPT ![t] = "saveStoryToDatabase"]
          /\ UNCHANGED <<err, proc, rest, kids, comments, rel, sel>>
    /\ UNCHANGED <<inst, story, skipped, pubFailed, nticks, cand, db, created, postCount, overlapped>>

saveStoryToDatabase(t) ==
    /\ HnRuns(t)
    /\ pc[t] = "saveStoryToDatabase"
    /\ \/ /\ HnAbort(t, "storage")
          /\ UNCHANGED <<db, created>>
       \/ /\ UniqueViolation(db, Head(rest[t]))
          /\ HnAbort(t, "constraint")
          /\ UNCHANGED <<db, created>>
       \/ /\ ~UniqueViolation(db, Head(rest[t]))
          /\ db' = InsertRow(db, Head(rest[t]), t)
          /\ created' = Append(created, Head(rest[t]))
          /\ HnLoop(t, Tail(rest[t]))
          /\ UNCHANGED <<err, proc, sel>>
    /\ UNCHANGED <<inst, story, skipped, pubFailed, nticks, cand, postCount, overlapped>>

\* ---------------------------------------------------------------- hn: release
\* getTopNewsItem, the db.get callback.
getTopNewsItem(t) ==
    /\ HnRuns(t)
    /\ rel[t] = "select"
    /\ \/ /\ MainSettles(t, "storage")
          /\ rel' = [rel EXCEPT ![t] = "failed"]
          /\ UNCHANGED sel
       \/ /\ SelectOldest(db) = NoRow
          /\ MainSettles(t, "none")
          /\ rel' = [rel EXCEPT ![t] = "absent"]
          /\ UNCHANGED sel
       \/ /\ SelectOldest(db) # NoRow
          /\ sel' = [sel EXCEPT ![t] = SelectOldest(db)]
          /\ rel' = [rel EXCEPT ![t] = "update"]
          /\ UNCHANGED <<pc, err, proc>>
    /\ UNCHANGED <<inst, story, skipped, pubFailed, nticks, rest, kids, comments, cand, db, created,
                   postCount, overlapped>>

\* getTopNewsItem, the db.run callback; on success testRetrieval goes on to
\* agent.login.
markRetrieved(t) ==
    /\ HnRuns(t)
    /\ rel[t] = "update"
    /\ \/ /\ MainSettles(t, "storage")
          /\ rel' = [rel EXCEPT ![t] = "failed"]
          /\ sel' = [sel EXCEPT ![t] = NoRow]
          /\ UNCHANGED db
       \/ /\ db' = MarkRetrieved(db, sel[t])
          /\ rel' = [rel EXCEPT ![t] = "login"]
          /\ UNCHANGED <<pc, err, proc, sel>>
    /\ UNCHANGED <<inst, story, skipped, pubFailed, nticks, rest, kids, comments, cand, created,
                   postCount, overlapped>>

\* testRetrieval: await agent.login(...), rt.detectFacets(), then agent.post
\* is called.
hnLogin(t) ==
    /\ HnRuns(t)
    /\ rel[t] = "login"
    /\ \/ /\ MainSettles(t, "login")
          /\ rel' = [rel EXCEPT ![t] = "failed"]
          /\ sel' = [sel EXCEPT ![t] = NoRow]
          /\ pubFailed' = pubFailed \cup {ExtOf(db, sel[t])}
          /\ UNCHANGED postCount
       \/ /\ rel' = [rel EXCEPT ![t] = "post"]
          /\ postCount' = [postCount EXCEPT ![ExtOf(db, sel[t])] = Counted(@)]
          /\ UNCHANGED <<pc, err, proc, sel, pubFailed>>
    /\ UNCHANGED <<inst, story, skipped, nticks, rest, kids, comments, cand, db, created, overlapped>>

\* testRetrieval: await agent.post(...) returns or throws.
hnPost(t) ==
    /\ HnRuns(t)
    /\ rel[t] = "post"
    /\ \/ /\ MainSettles(t, "post")
          /\ rel' = [rel EXCEPT ![t] = "failed"]
          /\ pubFailed' = pubFailed \cup {ExtOf(db, sel[t])}
       \/ /\ MainSettles(t, "none")
          /\ rel' = [rel EXCEPT ![t] = "done"]
          /\ UNCHANGED pubFailed
    /\ sel' = [sel EXCEPT ![t] = NoRow]
    /\ UNCHANGED <<inst, story, skipped, nticks, rest, kids, comments, cand, db, created,
                   postCount, overlapped>>

\* ---------------------------------------------------------------- reddit: main
RedditRuns(t) == inst = "reddit" /\ proc # "exited" /\ t \in 1..nticks

\* posts.forEach((post) => db.get(...)): one lookup queued per listed post.
\* (overtaken, history: a post listed after this one was inserted before it.)
Dispatch(l) == [i \in 1..Len(l) |-> [ext |-> l[i], st |-> "lookup", overtaken |-> FALSE]]

\* main: await processPosts() (fetchRecentPosts, then the forEach), then
\* setTimeout(() => retrieveAndPost(), 5000); main resolves.
fetchRecentPosts(t) ==
    /\ RedditRuns(t)
    /\ pc[t] = "fetchRecentPosts"
    /\ \/ /\ MainSettles(t, "listing")
          /\ UNCHANGED <<cand, rel>>
       \/ /\ \E l \in Listings : cand' = [cand EXCEPT ![t] = Dispatch(l)]
          /\ rel' = [rel EXCEPT ![t] = "timer"]
          /\ MainSettles(t, "none")
    /\ UNCHANGED <<inst, story, skipped, pubFailed, nticks, rest, kids, comments, sel, db, created,
                   postCount, overlapped>>

CandAt(t, i, st) == i \in 1..Len(cand[t]) /\ cand[t][i].st = st
CandTo(t, i, st) == cand' = [cand EXCEPT ![t][i].st = st]
\* The callback chain of post i returns: nothing of it remains.
CandEnds(t, i) ==
    cand' = [cand EXCEPT ![t] = SubSeq(@, 1, i - 1) \o SubSeq(@, i + 1, Len(@))]

\* The insert of post i succeeded: the callback returns, and the pending
\* callbacks of the posts listed before it are overtaken.
CandInserted(t, i) ==
    cand' = [cand EXCEPT ![t] =
                [j \in 1..(i - 1) |->
                    IF @[j].ext # @[i].ext THEN [@[j] EXCEPT !.overtaken = TRUE] ELSE @[j]]
                \o SubSeq(@, i + 1, Len(@))]

\* processPosts, the db.get callback of post i up to its first await.
processPosts(t, i) ==
    /\ RedditRuns(t)
    /\ CandAt(t, i, "lookup")
    /\ \/ CandEnds(t, i)
       \/ /\ HasRow(db, cand[t][i].ext)
          /\ CandEnds(t, i)
       \/ /\ ~HasRow(db, cand[t][i].ext)
          /\ CandTo(t, i, "summarizeTitle")
    /\ UNCHANGED <<inst, story, skipped, pubFailed, proc, nticks, pc, err, rest, kids, comments, rel, sel,
                   db, created, postCount, overlapped>>

summarizeTitle(t, i) ==
    /\ RedditRuns(t)
    /\ CandAt(t, i, "summarizeTitle")
    /\ \/ /\ CandEnds(t, i)
          /\ UnhandledRejection
       \/ /\ CandTo(t, i, "summarizeDiscussion")
          /\ UNCHANGED proc
    /\ UNCHANGED <<inst, story, skipped, pubFailed, nticks, pc, err, rest, kids, comments, rel, sel,
                   db, created, postCount, overlapped>>

\* On success the callback goes on to db.run(INSERT ...), which is queued.
summarizeDiscussion(t, i) ==
    /\ RedditRuns(t)
    /\ CandAt(t, i, "summarizeDiscussion")
    /\ \/ /\ CandEnds(t, i)
          /\ UnhandledRejection
       \/ /\ CandTo(t, i, "insert")
          /\ UNCHANGED proc
    /\ UNCHANGED <<inst, story, skipped, pubFailed, nticks, pc, err, rest, kids, comments, rel, sel,
                   db, created, postCount, overlapped>>

\* processPosts, the db.run(INSERT ...) callback: an error is logged.
insertPost(t, i) ==
    /\ RedditRuns(t)
    /\ CandAt(t, i, "insert")
    /\ \/ /\ CandEnds(t, i)
          /\ UNCHANGED <<db, created>>
       \/ /\ UniqueViolation(db, cand[t][i].ext)
          /\ CandEnds(t, i)
          /\ UNCHANGED <<db, created>>
       \/ /\ ~UniqueViolation(db, cand[t][i].ext)
          /\ db' = InsertRow(db, cand[t][i].ext, t)
          /\ created' = Append(created, cand[t][i].ext)
          /\ CandInserted(t, i)
    /\ UNCHANGED <<inst, story, skipped, pubFailed, proc, nticks, pc, err, rest, kids, comments, rel, sel,
                   postCount, overlapped>>

\* ---------------------------------------------------------------- reddit: release
\* The 5000 ms timer fires: retrieveAndPost, its db.get callback up to the
\* call of postToBluesky (agent.login).
retrieveAndPost(t) ==
    /\ RedditRuns(t)
    /\ rel[t] = "timer"
    /\ \/ /\ rel' = [rel EXCEPT ![t] = "failed"]
          /\ UNCHANGED sel
       \/ /\ SelectOldest(db) = NoRow
          /\ rel' = [rel EXCEPT ![t] = "absent"]
          /\ UNCHANGED sel
       \/ /\ SelectOldest(db) # NoRow
          /\ sel' = [sel EXCEPT ![t] = SelectOldest(db)]
          /\ rel' = [rel EXCEPT ![t] = "login"]
    /\ UNCHANGED <<inst, story, skipped, pubFailed, proc, nticks, pc, err, rest, kids, comments, cand, db,
                   created, postCount, overlapped>>

\* postToBluesky: agent.login returns (then agent.post is called) or throws
\* (caught and logged; retrieveAndPost goes on to the UPDATE).
postToBlueskyLogin(t) ==
    /\ RedditRuns(t)
    /\ rel[t] = "login"
    /\ \/ /\ rel' = [rel EXCEPT ![t] = "update"]
          /\ pubFailed' = pubFailed \cup {ExtOf(db, sel[t])}
          /\ UNCHANGED postCount
       \/ /\ rel' = [rel EXCEPT ![t] = "post"]
          /\ postCount' = [postCount EXCEPT ![ExtOf(db, sel[t])] = Counted(@)]
          /\ UNCHANGED pubFailed
    /\ UNCHANGED <<inst, story, skipped, proc, nticks, pc, err, rest, kids, comments, cand, sel,
                   db, created, overlapped>>

\* postToBluesky: agent.post returns or throws (caught and logged).
postToBlueskyPost(t) ==
    /\ RedditRuns(t)
    /\ rel[t] = "post"
    /\ rel' = [rel EXCEPT ![t] = "update"]
    /\ \/ pubFailed' = pubFailed \cup {ExtOf(db, sel[t])}
       \/ UNCHANGED pubFailed
    /\ UNCHANGED <<inst, story, skipped, proc, nticks, pc, err, rest, kids, comments, cand, sel,
                   db, created, postCount, overlapped>>

\* retrieveAndPost, the db.run(UPDATE ...) callback: an error is logged.
retrieveAndPostUpdate(t) ==
    /\ RedditRuns(t)
    /\ rel[t] = "update"
    /\ \/ /\ rel' = [rel EXCEPT ![t] = "failed"]
          /\ UNCHANGED db
       \/ /\ db' = MarkRetrieved(db, sel[t])
          /\ rel' = [rel EXCEPT ![t] = "done"]
    /\ sel' = [sel EXCEPT ![t] = NoRow]
    /\ UNCHANGED <<inst, story, skipped, pubFailed, proc, nticks, pc, err, rest, kids, comments, cand,
                   created, postCount, overlapped>>

RedditNext ==
    \E t \in Ticks :
        \/ fetchRecentPosts(t)
        \/ retrieveAndPost(t)
        \/ postToBlueskyLogin(t)
        \/ postToBlueskyPost(t)
        \/ retrieveAndPostUpdate(t)
        \/ \E i \in 1..MaxList :
              \/ processPosts(t, i)
              \/ summarizeTitle(t, i)
              \/ summarizeDiscussion(t, i)
              \/ insertPost(t, i)

\* ---------------------------------------------------------------- scheduler
\* The job created and never started.
cronNever == FALSE

\* job.start(): the cron expression fires main, whatever earlier ticks do.
cronFire ==
    /\ proc = "scheduled"
    /\ nticks < TickBudget
    /\ nticks' = nticks + 1
    /\ pc' = [pc EXCEPT ![nticks + 1] = StartPc(inst)]
    /\ overlapped' = (overlapped \/ \E t \in Ticks : InFlight(t))
    /\ UNCHANGED <<inst, story, skipped, pubFailed, proc, err, rest, kids, comments, cand, rel, sel, db,
                   created, postCount>>

\* The process is terminated from outside; the in-flight ticks are abandoned.
terminate ==
    /\ proc # "exited"
    /\ proc' = "exited"
    /\ UNCHANGED <<inst, story, skipped, pubFailed, nticks, pc, err, rest, kids, comments, cand, rel, sel,
                   db, created, postCount, overlapped>>

HnNext ==
    \E t \in Ticks :
        \/ fetchTopStories(t)
        \/ isStoryProcessed(t)
        \/ fetchStoryDetails(t)
        \/ checkStory(t)
        \/ fetchComment(t)
        \/ summarizeComments(t)
        \/ saveStoryToDatabase(t)
        \/ getTopNewsItem(t)
        \/ markRetrieved(t)
        \/ hnLogin(t)
        \/ hnPost(t)

Next == HnNext \/ RedditNext \/ cronFire \/ terminate

Spec == Init /\ [][Next]_vars

\* ---------------------------------------------------------------- fault-free runs
\* The step of tick t, whichever script runs.
TickStep(t) ==
    \/ fetchTopStories(t)
    \/ isStoryProcessed(t)
    \/ fetchStoryDetails(t)
    \/ checkStory(t)
    \/ fetchComment(t)
    \/ summarizeComments(t)
    \/ saveStoryToDatabase(t)
    \/ getTopNewsItem(t)
    \/ markRetrieved(t)
    \/ hnLogin(t)
    \/ hnPost(t)
    \/ fetchRecentPosts(t)
    \/ retrieveAndPost(t)
    \/ postToBlueskyLogin(t)
    \/ postToBlueskyPost(t)
    \/ retrieveAndPostUpdate(t)
    \/ \E i \in 1..MaxList :
          \/ processPosts(t, i)
          \/ summarizeTitle(t, i)
          \/ summarizeDiscussion(t, i)
          \/ insertPost(t, i)

\* The reddit callback of post i of tick t returns in this step because its
\* lookup found the row or its insert was answered with the row in the table.
CandReturns(t, i) ==
    /\ cand[t][i].st \in {"lookup", "insert"}
    /\ \E r \in db' : r.ext = cand[t][i].ext
    /\ \A j \in 1..Len(cand'[t]) :
          LET k == IF j < i THEN j ELSE j + 1
          IN  cand'[t][j].ext = cand[t][k].ext /\ cand'[t][j].st = cand[t][k].st

\* No request to the source, to OpenAI or to Bluesky and no sqlite statement
\* fails in this step, and the process is not ended. (The UNIQUE violation of
\* an insert is not a failure of the store: it stays possible.)
NoFault ==
    /\ proc' # "exited"
    /\ pubFailed' = pubFailed
    /\ \A t \in Ticks :
          /\ err'[t] \in {err[t], "none", "constraint"}
          /\ rel'[t] = "failed" => rel[t] = "failed"
          /\ Len(cand'[t]) < Len(cand[t]) => \E i \in 1..Len(cand[t]) : CandReturns(t, i)

\* The runs of main that a fault-free behaviour has in flight at a time.
LiveTicks == 2

\* The cron expression fires again, five minutes after the runs of main
\* before it, which have finished by then: main starts once more, in the
\* place of a run of main (not the startup run) that has finished.
cronRefire ==
    /\ proc = "scheduled"
    /\ nticks = LiveTicks
    /\ \E t \in 2..LiveTicks :
          /\ pc[t] \in {"done", "rejected"}
          /\ \A u \in Ticks : ~InFlight(u)
          /\ pc' = [pc EXCEPT ![t] = StartPc(inst)]
          /\ err' = [err EXCEPT ![t] = "none"]
          /\ rel' = [rel EXCEPT ![t] = "none"]
          /\ sel' = [sel EXCEPT ![t] = NoRow]
    /\ overlapped' = (overlapped \/ \E u \in Ticks : InFlight(u))
    /\ UNCHANGED <<inst, story, skipped, pubFailed, proc, nticks, rest, kids, comments, cand, db,
                   created, postCount>>

LiveNext ==
    \/ \E t \in Ticks : TickStep(t) /\ NoFault
    \/ cronFire /\ nticks < LiveTicks
    \/ cronRefire

\* Every callback that is ready is run by the event loop, and the cron job
\* keeps firing.
Fairness ==
    /\ \A t \in Ticks : WF_vars(TickStep(t) /\ NoFault)
    /\ WF_vars((cronFire /\ nticks < LiveTicks) \/ cronRefire)

LiveSpec == Init /\ [][LiveNext]_vars /\ Fairness

\* ================================================================ properties
RowOf(d, i) == CHOOSE r \in d : r.id = i
Unpublished(d) == {r \in d : ~r.retrieved}
\* Position of the row of external id e in the order of creation.
CreationOrder(c, e) == CHOOSE k \in 1..Len(c) : c[k] = e

IngestPcs == {"isStoryProcessed", "fetchStoryDetails", "checkStory", "fetchComment",
              "summarizeComments", "saveStoryToDatabase"}

\* The hn loop of tick t takes a step for a candidate that is already stored.
HnIngestsStored(t) ==
    /\ inst = "hn"
    /\ pc[t] \in IngestPcs
    /\ <<pc[t], rest[t], kids[t]>>' # <<pc[t], rest[t], kids[t]>>
    /\ HasRow(db, Head(rest[t]))

\* A reddit callback of tick t takes a step for a post that is already stored.
RedditIngestsStored(t) ==
    /\ inst = "reddit"
    /\ cand'[t] # cand[t]
    /\ \E i \in 1..Len(cand[t]) :
          /\ HasRow(db, cand[t][i].ext)
          /\ \/ cand'[t] = SubSeq(cand[t], 1, i - 1) \o SubSeq(cand[t], i + 1, Len(cand[t]))
             \/ /\ Len(cand'[t]) = Len(cand[t])
                /\ \A j \in 1..Len(cand[t]) : j # i => cand'[t][j] = cand[t][j]

UniqueExternalId(d) == \A r1, r2 \in d : r1.ext = r2.ext => r1 = r2

\* C1. Idempotent ingestion: after every step the store holds at most one
\* Record per externalId, and every ingestion step taken for an identifier
\* that is already stored leaves the store unchanged.
IdempotentIngestion ==
    [][/\ UniqueExternalId(db')
       /\ \A t \in Ticks : (HnIngestsStored(t) \/ RedditIngestsStored(t)) => db' = db]_vars

\* C1 witness: an insert of an identifier that was stored meanwhile has been
\* attempted, and the store still holds the one Record.
IdempotentIngestionWitness ==
    \E t \in Ticks : err[t] = "constraint" /\ Cardinality(db) = 1

\* The release step of tick t selects a row in this step.
Selects(t) == sel[t] = NoRow /\ sel'[t] # NoRow
\* The release step of tick t reports absence in this step.
ReportsAbsence(t) == rel[t] # "absent" /\ rel'[t] = "absent"

RelFinal == {"done", "failed", "absent"}
\* The release step of tick t finishes in this step.
Finishes(t) == rel[t] \in {"timer", "select", "update", "login", "post"} /\ rel'[t] \in RelFinal
\* The UPDATE of the release step of tick t succeeds in this step.
UpdateSucceeds(t) == rel[t] = "update" /\ rel'[t] \in {"login", "done"}
\* The rows whose flag goes from unpublished to published in this step.
Flipped == {r \in Unpublished(db) : \E x \in db' : x.id = r.id /\ x.retrieved}

\* C3, as claimed. At-most-one release per call: an invocation that selected
\* a Record finishes with that Record marked published, no step marks more
\* than one, and no invocation finishes having marked none while an
\* unpublished Record remains.
ExactlyOneReleasePerCall ==
    [][/\ Cardinality(Flipped) <= 1
       /\ \A t \in Ticks :
            /\ (Finishes(t) /\ sel[t] # NoRow) => RowOf(db', sel[t]).retrieved
            /\ (Finishes(t) /\ sel[t] = NoRow) => Unpublished(db') = {}]_vars

\* C3, amended. An invocation of the release step never marks more than one
\* Record and marks only the Record it selected; that Record is marked when
\* the invocation's UPDATE succeeds; once finished the invocation marks
\* nothing more; and it reports absence only when no Record is unpublished.
\* (A failed select or UPDATE ends it with none marked.)
AtMostOneReleasePerCall ==
    [][/\ Cardinality(Flipped) <= 1
       /\ Flipped # {} =>
            \E t \in Ticks : UpdateSucceeds(t) /\ Flipped = {RowOf(db, sel[t])}
       /\ \A t \in Ticks :
            /\ UpdateSucceeds(t) => RowOf(db', sel[t]).retrieved
            /\ rel[t] \in RelFinal => rel'[t] = rel[t]
            /\ (inst = "hn" /\ rel[t] \in {"login", "post"}) => rel'[t] # "update"
            /\ ReportsAbsence(t) => Unpublished(db) = {}]_vars

\* C3 witness: the only release step run so far has finished, and of the two
\* stored Records exactly one is marked published.
AtMostOneReleasePerCallWitness ==
    \E t \in Ticks :
        /\ rel[t] = "done"
        /\ \A u \in Ticks \ {t} : rel[u] = "none"
        /\ Cardinality(db) = 2
        /\ Cardinality(Unpublished(db)) = 1

\* A publish attempt (agent.login, agent.post) for the selected Record of
\* tick t is in progress, or was when the process ended.
Publishing(t) == rel[t] \in {"login", "post"}

\* C4. Mark-before-publish: whenever a publish attempt for a Record is in
\* progress or was interrupted, that Record is already marked published.
MarkBeforePublish ==
    \A t \in Ticks : Publishing(t) => RowOf(db, sel[t]).retrieved

\* C5. At-most-once publish: as long as no tick started while another was in
\* flight, no Record has had a post attempted for it more than once.
AtMostOncePublish ==
    ~overlapped => \A e \in Ids : postCount[e] <= 1

\* C6. Mutual exclusion of release: two release steps in progress never hold
\* the same selected Record.
ReleaseMutualExclusion ==
    \A t, u \in Ticks :
        (t # u /\ RelBusy(t) /\ RelBusy(u) /\ sel[t] # NoRow /\ sel[u] # NoRow)
            => sel[t] # sel[u]

\* The ingestion of tick t is in flight.
Ingesting(t) == pc[t] \in ({"fetchTopStories", "fetchRecentPosts"} \cup IngestPcs) \/ CandBusy(t)

\* C7. Tick serialization: no tick is started while the ingestion of an
\* earlier tick is still in flight.
TickSerialization ==
    [][nticks' # nticks => \A t \in Ticks : ~Ingesting(t)]_vars

\* C8. Ingestion-before-release: the release step of a tick selects only when
\* no candidate of that tick is still being checked, enriched or inserted.
IngestionBeforeRelease ==
    [][\A t \in Ticks :
          (rel[t] \in {"timer", "select"} /\ rel'[t] # rel[t]) => ~Ingesting(t)]_vars

\* C9. Errors never stop the scheduler: when main of a tick fails, the
\* process goes on with the cron job started.
ErrorsNeverStopScheduler ==
    [][\A t \in Ticks :
          (err[t] = "none" /\ err'[t] # "none") => proc' = "scheduled"]_vars

\* C10. Duplicate-key on persist is swallowed: no tick is ended by the
\* uniqueness violation of an insert.
DuplicateKeySwallowed ==
    \A t \in Ticks : err[t] # "constraint"

\* C11. Skip-on-malformed (hn): when the test of the fetched detail is taken
\* for a detail that is absent or has neither kids nor url, the step stores
\* nothing, starts no comment fetch and no summarization, raises no error and
\* leaves the process running, and the loop goes on with the next candidate of
\* the tick (or, after the last one, leaves the loop normally).
SkipOnMalformed ==
    [][\A t \in Ticks :
          (inst = "hn" /\ pc[t] = "checkStory" /\ pc'[t] # "checkStory"
             /\ LacksBoth(story[t]))
          => /\ db' = db
             /\ err' = err
             /\ proc' = proc
             /\ rest'[t] = Tail(rest[t])
             /\ pc'[t] = IF Tail(rest[t]) = <<>> THEN "testRetrieval"
                                                ELSE "isStoryProcessed"]_vars

\* C11 witness: the first candidate of a tick was skipped for an absent or
\* empty detail, nothing is stored, no error is recorded and the tick is
\* checking its second candidate.
SkipOnMalformedWitness ==
    \E t \in Ticks :
        /\ pc[t] = "isStoryProcessed"
        /\ Len(rest[t]) = 1
        /\ \E k \in skipped : k.both /\ k.ext # Head(rest[t])
        /\ db = {}
        /\ err[t] = "none"
        /\ nticks = 1

\* The failures of a detail fetch (of the story or of a comment) and of the
\* summarization call.
EnrichFailures == {"detail", "comment", "summarize"}

\* C12. Abort without rollback (hn): the step in which a detail fetch or the
\* summarization call of a tick fails writes nothing and ends main of that
\* tick; from then on the tick takes no step, so it persists neither that
\* candidate nor a later one (every new Record comes from a tick that has not
\* failed); and every Record in the store stays there with its identifiers
\* and content (only a release step may still mark it published).
AbortWithoutRollback ==
    [][inst = "hn" =>
         /\ \A t \in Ticks :
               /\ (err[t] = "none" /\ err'[t] \in EnrichFailures)
                     => (db' = db /\ pc'[t] = "rejected")
               /\ err[t] \in EnrichFailures
                     => /\ pc[t] = "rejected" /\ pc'[t] = "rejected"
                        /\ rel[t] = "none" /\ rel'[t] = "none"
                        /\ rest'[t] = rest[t]
         /\ \A r \in db : \E x \in db' :
               /\ x.id = r.id /\ x.ext = r.ext /\ x.summary = r.summary
               /\ r.retrieved => x.retrieved
         /\ \A x \in db' :
               x.id \notin {r.id : r \in db}
                  => (err[x.summary] = "none" /\ pc[x.summary] = "saveStoryToDatabase")]_vars

\* C12 witness: a tick persisted its first candidate, the summarization call
\* for its second one failed, and that Record is in the store, unpublished.
AbortWithoutRollbackWitness ==
    \E t \in Ticks :
        /\ inst = "hn"
        /\ err[t] = "summarize"
        /\ \E r \in db : r.summary = t /\ ~r.retrieved
        /\ Cardinality(db) = 1

\* C13. Publish failure does not re-queue: a release step that finishes for
\* a Record whose publish attempt failed leaves that Record marked published,
\* and no release step selects a Record whose publish attempt has failed.
PublishFailureNoRequeue ==
    [][\A t \in Ticks :
          /\ (Finishes(t) /\ sel[t] # NoRow /\ ExtOf(db, sel[t]) \in pubFailed')
                => RowOf(db', sel[t]).retrieved
          /\ Selects(t) => ExtOf(db, sel'[t]) \notin pubFailed]_vars

\* C14. Record lifecycle: in every step each stored Record stays in the
\* store with its id, externalId and content; its published flag is never
\* taken back; a flag that turns true is that of the Record selected by a
\* release step whose UPDATE succeeds in this step; a Record new in the
\* store is unpublished; and ids are never reused.
RecordLifecycle ==
    [][/\ \A r \in db : \E x \in db' :
             /\ x.id = r.id /\ x.ext = r.ext /\ x.summary = r.summary
             /\ r.retrieved => x.retrieved
       /\ \A x \in db' : x.id \notin {r.id : r \in db} => ~x.retrieved
       /\ Cardinality({x.id : x \in db'}) = Cardinality(db')
       /\ \A r \in Flipped :
             \E t \in Ticks : UpdateSucceeds(t) /\ sel[t] = r.id]_vars

\* C14 witness: a Record created by the first tick has been published and a
\* Record created by the second tick is in the store, unpublished.
RecordLifecycleWitness ==
    /\ \E r \in db : r.summary = 1 /\ r.retrieved
    /\ \E x \in db : x.summary = 2 /\ ~x.retrieved

\* The positions of the hn loop after the lookup: detail fetch, test of the
\* detail, comment fetches, summarization call, insert.
EnrichPcs == {"fetchStoryDetails", "checkStory", "fetchComment", "summarizeComments",
              "saveStoryToDatabase"}
\* The stages of a reddit callback after the lookup.
EnrichStages == {"summarizeTitle", "summarizeDiscussion", "insert"}

\* C15. Dedup before enrichment: the hn loop starts the enrichment of a
\* candidate (detail fetch first) only in the step in which the lookup of that
\* same candidate returns, with the identifier not in the store, and keeps to
\* that candidate while enriching; a reddit callback is queued at its lookup
\* and reaches a summarization call only from that lookup, with the
\* identifier not in the store, and for the same post.
DedupBeforeEnrichment ==
    [][\A t \in Ticks :
          /\ (inst = "hn" /\ pc'[t] \in EnrichPcs /\ pc[t] \notin EnrichPcs)
                => /\ pc[t] = "isStoryProcessed"
                   /\ pc'[t] = "fetchStoryDetails"
                   /\ ~\E r \in db : r.ext = Head(rest[t])
                   /\ rest'[t] = rest[t]
          /\ (inst = "hn" /\ pc'[t] \in EnrichPcs /\ pc[t] \in EnrichPcs)
                => rest'[t] = rest[t]
          /\ (inst = "reddit" /\ Len(cand'[t]) > Len(cand[t]))
                => \A i \in 1..Len(cand'[t]) : cand'[t][i].st = "lookup"
          /\ (inst = "reddit" /\ Len(cand'[t]) = Len(cand[t]))
                => \A i \in 1..Len(cand[t]) :
                      (cand'[t][i].st \in EnrichStages /\ cand[t][i].st \notin EnrichStages)
                         => /\ cand[t][i].st = "lookup"
                            /\ cand'[t][i].ext = cand[t][i].ext
                            /\ ~\E r \in db : r.ext = cand[t][i].ext]_vars

\* C15 witness: while one identifier is stored, a summarization call is in
\* progress for a listed candidate whose identifier is not stored.
DedupBeforeEnrichmentWitness ==
    /\ db # {}
    /\ \E t \in Ticks :
          \/ /\ pc[t] = "summarizeComments"
             /\ ~\E r \in db : r.ext = Head(rest[t])
          \/ \E i \in 1..Len(cand[t]) :
                /\ cand[t][i].st = "summarizeTitle"
                /\ ~\E r \in db : r.ext = cand[t][i].ext

\* The Records new in the store in this step.
Persisted == {x \in db' : x.id \notin {r.id : r \in db}}

\* C16. Ingestion order follows source order: a Record a tick persists is
\* that of the first candidate of the listing it has not yet dealt with (hn),
\* and never that of a post for which a post listed after it in the same
\* listing has already been persisted by the tick (reddit).
SourceOrderIngestion ==
    [][\A x \in Persisted :
          /\ inst = "hn" =>
                /\ rest[x.summary] # <<>>
                /\ x.ext = Head(rest[x.summary])
                /\ rest'[x.summary] = Tail(rest[x.summary])
          /\ inst = "reddit" =>
                \A i \in 1..Len(cand[x.summary]) :
                    (/\ cand[x.summary][i].st = "insert"
                     /\ cand[x.summary][i].ext = x.ext
                     /\ Len(cand'[x.summary]) < Len(cand[x.summary]))
                       => ~cand[x.summary][i].overtaken]_vars

\* C17. Partial discussion is tolerated (hn): every comment fetch of a tick,
\* whatever its outcome, raises no error and is followed by the next comment
\* fetch or by the summarization call of the candidate.
PartialDiscussionTolerated ==
    [][\A t \in Ticks :
          (inst = "hn" /\ pc[t] = "fetchComment"
             /\ <<pc[t], kids[t]>>' # <<pc[t], kids[t]>>)
          => /\ err'[t] = "none"
             /\ proc' = proc
             /\ pc'[t] \in {"fetchComment", "summarizeComments"}
             /\ rest'[t] = rest[t]]_vars

\* C18. Release still runs after an early abort: once main of a tick has
\* settled, resolved or rejected, the release step of that tick has been
\* invoked (reddit: its timer has at least been set).
ReleaseAfterAbort ==
    \A t \in Ticks : pc[t] \in {"done", "rejected"} => rel[t] # "none"

\* The detail is null or lacks kids or url.
MissingField(s) == ~s.present \/ s.kids = -1 \/ ~s.url
\* Tick t is dealing with a candidate that was skipped before and is not stored.
RevisitsSkipped(t) ==
    /\ inst = "hn"
    /\ pc[t] \in IngestPcs
    /\ \E k \in skipped : k.ext = Head(rest[t])
    /\ ~\E r \in db : r.ext = Head(rest[t])
\* Tick t leaves its current candidate in this step.
LeavesCandidate(t) == pc[t] \in IngestPcs /\ rest'[t] # rest[t]
\* The current candidate of tick t is stored after this step.
CandidateStored(t) == \E r \in db' : r.ext = Head(rest[t])

\* The positions of the hn loop reached only with a detail that has both
\* kids and url.
WellFormedPcs == {"fetchComment", "summarizeComments", "saveStoryToDatabase"}

\* C20, as claimed. Skips are not remembered (hn): a skip leaves the store
\* unchanged, and a tick that comes to a candidate skipped before and not yet
\* stored, and whose detail now has both kids and url, goes on to enrich it
\* and leaves it only with the candidate stored.
SkipsRetriedUntilIngested ==
    [][\A t \in Ticks :
          /\ (inst = "hn" /\ pc[t] = "checkStory" /\ LeavesCandidate(t)) => db' = db
          /\ (RevisitsSkipped(t) /\ pc[t] = "checkStory" /\ ~MissingField(story[t])
                /\ pc'[t] # pc[t])
                => pc'[t] \in WellFormedPcs /\ rest'[t] = rest[t]
          /\ (RevisitsSkipped(t) /\ pc[t] \in WellFormedPcs /\ LeavesCandidate(t))
                => CandidateStored(t)]_vars

\* C20, amended. A skip leaves the store unchanged; a tick that comes to a
\* candidate skipped before and not yet stored fetches its detail when the
\* lookup returns, goes on to the comments or the summarization when the
\* detail has both kids and url, and leaves the candidate only by skipping it
\* again for a missing field, with the candidate stored, or because one of
\* its calls failed and ended the tick.
SkipsNotRemembered ==
    [][\A t \in Ticks :
          /\ (inst = "hn" /\ pc[t] = "checkStory" /\ LeavesCandidate(t)) => db' = db
          /\ (RevisitsSkipped(t) /\ pc'[t] # pc[t] /\ err'[t] = "none")
                => /\ pc[t] = "isStoryProcessed" => pc'[t] = "fetchStoryDetails"
                   /\ (pc[t] = "checkStory" /\ ~MissingField(story[t]))
                         => pc'[t] \in {"fetchComment", "summarizeComments"}
                   /\ pc[t] = "saveStoryToDatabase" => CandidateStored(t)
          /\ (RevisitsSkipped(t) /\ LeavesCandidate(t))
                => \/ pc[t] = "checkStory" /\ MissingField(story[t])
                   \/ CandidateStored(t)
                   \/ err[t] = "none" /\ err'[t] # "none" /\ rest'[t] = <<>>]_vars

\* C20 witness: an identifier skipped earlier is now stored, persisted by the
\* second tick after the first tick had ended.
SkipsNotRememberedWitness ==
    /\ inst = "hn"
    /\ pc[1] = "done"
    /\ \E k \in skipped : \E r \in db : r.ext = k.ext /\ r.summary = 2

\* A Record of identifier e is stored, unpublished / published.
Queued(e) == \E r \in db : r.ext = e /\ ~r.retrieved
Released(e) == \E r \in db : r.ext = e /\ r.retrieved

====
